---- MODULE Spec2Model ----
(***************************************************************************)
(* Map Explorer (jiahaoxiang2000/map-show-video).                          *)
(*                                                                         *)
(* Three pages share the same structure and are modelled side by side; the *)
(* page that is loaded is fixed by `variant`:                              *)
(*   "scroll"  src/main.js 1-395    scroll-driven map animation            *)
(*   "image"   src/main.js 397-722  click navigation, background image     *)
(*   "tile"    src/unnamed/part_000 click navigation, Leaflet tile map     *)
(*                                                                         *)
(* Numbers that are IEEE doubles in the source are exact rationals here    *)
(* (a pair [num, den], den > 0, in lowest terms): ratios, products and     *)
(* comparisons are computed as the code computes them, without rounding.   *)
(* Location indices are 0-based as in the source; `locations` is a TLA+    *)
(* sequence, so locations[i] of the source is locations[i + 1] here.       *)
(***************************************************************************)
EXTENDS Integers, Sequences, FiniteSets, TLC

(***************************************************************************)
(* Bounds of the model.                                                    *)
(***************************************************************************)
\* largest number of locations in data/locations.json
MaxLocations == 3
\* largest window / container dimension, in model pixels
MaxDim == 2
\* largest image dimension (mapConfig.imageWidth, mapConfig.imageHeight)
MaxImage == 2
\* largest number of orientationchange timers pending at once
MaxRotations == 1
\* largest number of markers in the runs that resize the window
MaxMarkers == 1
\* largest number of overlay-reveal timers pending at once
MaxTimers == 2
\* how far the scroll position may leave [0, maxScroll] (rubber-band scrolling)
Overscroll == 1

(***************************************************************************)
(* Exact rational arithmetic.                                              *)
(***************************************************************************)
Abs(n) == IF n < 0 THEN -n ELSE n

RECURSIVE Gcd(_, _)
Gcd(a, b) == IF b = 0 THEN a ELSE Gcd(b, a % b)

Rat(n, d) ==
  LET g == Gcd(Abs(n), Abs(d))
      s == IF d < 0 THEN -1 ELSE 1
  IN  [num |-> (s * n) \div g, den |-> (s * d) \div g]

Int2Rat(n) == [num |-> n, den |-> 1]
RAdd(a, b) == Rat(a.num * b.den + b.num * a.den, a.den * b.den)
RSub(a, b) == Rat(a.num * b.den - b.num * a.den, a.den * b.den)
RMul(a, b) == Rat(a.num * b.num, a.den * b.den)
RDiv(a, b) == Rat(a.num * b.den, a.den * b.num)
RLt(a, b) == a.num * b.den < b.num * a.den
RLe(a, b) == a.num * b.den <= b.num * a.den
RGt(a, b) == RLt(b, a)
RFloor(a) == a.num \div a.den
Zero == Int2Rat(0)
One == Int2Rat(1)

(***************************************************************************)
(* The static data of data/locations.json.  Location i (0-based) has id i  *)
(* and the percentage positions below; a file with n locations holds the   *)
(* first n of them.                                                        *)
(***************************************************************************)
LocationAt(i) ==
  [id |-> i,
   position |-> [x |-> 20 + 30 * (i % 3), y |-> 30 + 20 * ((i + 1) % 3)],
   positionHorizontal |-> [x |-> 25 * (i % 5), y |-> 100 - 25 * (i % 5)],
   positionVertical |-> [x |-> 100 - 25 * (i % 5), y |-> 50]]

LocationsFile(n) == [i \in 1..n |-> LocationAt(i - 1)]

\* document.documentElement.scrollHeight - window.innerHeight of the scroll page
maxScroll == 12

(***************************************************************************)
(* Scroll page: configuration and pure helpers.                            *)
(***************************************************************************)
ZOOM_SCALE == Rat(5, 2)
SECTIONS == 5

calculateTransform(position, scale) ==
  [scale |-> scale,
   translateX |-> RMul(Int2Rat(50 - position.x), scale),
   translateY |-> RMul(Int2Rat(50 - position.y), scale)]

lerp(start, end, progress) == RAdd(start, RMul(RSub(end, start), progress))

\* an ease that keeps the first branch for every t
easeInCubic(t) == RMul(Int2Rat(4), RMul(t, RMul(t, t)))

easeInOutCubic(t) ==
  IF RLt(t, Rat(1, 2))
  THEN RMul(Int2Rat(4), RMul(t, RMul(t, t)))
  ELSE LET u == RAdd(RMul(Int2Rat(-2), t), Int2Rat(2))
       IN  RSub(One, RDiv(RMul(u, RMul(u, u)), Int2Rat(2)))

(***************************************************************************)
(* State.                                                                  *)
(***************************************************************************)
VARIABLES
  variant,               \* which page is loaded: "scroll", "image" or "tile"
  loadState,             \* "loading", "loaded" or "failed" (loadLocations)
  locations,             \* let locations = []
  currentLocationIndex,  \* let currentLocationIndex = -1
  infoOverlayActive,     \* infoOverlay.classList.contains("active")
  overlayLocation,       \* location whose title/description/video the overlay holds, -1 none
  \* scroll page
  scrollY,               \* window.scrollY
  ticking,               \* let ticking = false
  rafCallbacks,          \* animation-frame callbacks requested and not yet run
  visibleIcons,          \* let visibleIcons = new Set()
  enteringIcons,         \* icons carrying the "entering" class (its 800ms timer pending)
  activeIcons,           \* icons carrying the "active" class
  mapTransform,          \* mapImage.style.transform
  scrollProgress,        \* scrollProgress.style.height, as a fraction of 100%
  scrollHintHidden,      \* scrollHint.classList.contains("hidden")
  scenario,              \* section-by-section requests of the reference walk done so far, -1 off it (history)
  \* click pages
  markers,               \* let markers = [] (the number of markers created)
  activeMarkers,         \* markers carrying the "active" state
  timers,                \* pending overlay-reveal timers, oldest first, each with the index it was set for
  videoSrc,              \* location whose video the player's <source> holds, -1 none
  controls,              \* videoPlayer.hasAttribute("controls")
  pendingPlays,          \* play() promises not yet settled
  videoPlaying,          \* the player is playing
  videoHandlers,         \* videoPlayer.onclick / onended are installed
  counter,               \* currentLocationSpan.textContent (tile page)
  mapFocus,              \* target of the last map.flyTo: a location index, -1 the initial view (tile page)
  uncaught,              \* an exception or promise rejection went unhandled
  videoModalActive,      \* videoModal.classList.contains("active") (scroll page)
  \* image page: geometry
  innerWidth,            \* window.innerWidth
  innerHeight,           \* window.innerHeight
  offsetWidth,           \* mapElement.offsetWidth
  offsetHeight,          \* mapElement.offsetHeight
  mapConfig,             \* let mapConfig = {}
  backgroundBounds,      \* let backgroundBounds = { left: 0, top: 0, width: 0, height: 0 }
  backgroundImage,       \* mapElement.style.backgroundImage: "none", "horizontal" or "vertical"
  vh,                    \* the --vh custom property
  markerPositions,       \* style.left / style.top of each marker
  resizePending,         \* a resize event is queued for the installed listener
  orientationTimers,     \* pending 200ms timers of the orientationchange handler
  boundsFrom,            \* container size read by the last calculateBackgroundBounds (history)
  conversion,            \* the last updateMarkerPositions: its caller, the container size then and the size its bounds came from (history)
  lastRequest            \* the navigation function and index the last step called, if it was a request (history)

N == Len(locations)

Identity == [scale |-> One, translateX |-> Zero, translateY |-> Zero]

(***************************************************************************)
(* Scroll page: the handlers, as functions of the page state s.            *)
(***************************************************************************)
ScrollState ==
  [currentLocationIndex |-> currentLocationIndex,
   infoOverlayActive |-> infoOverlayActive,
   overlayLocation |-> overlayLocation,
   visibleIcons |-> visibleIcons,
   enteringIcons |-> enteringIcons,
   activeIcons |-> activeIcons,
   mapTransform |-> mapTransform,
   scrollProgress |-> scrollProgress,
   scrollHintHidden |-> scrollHintHidden]

\* a guard that lets the index one past the last location through
OutOfRangeOffByOne(index, n) == index < 0 \/ index > n

\* if (index < 0 || index >= locations.length) return;
OutOfRange(index, n) == index < 0 \/ index >= n

applyMapTransform(s, transform) == [s EXCEPT !.mapTransform = transform]

\* a showIcon that keeps only the icon it is asked for
showIconAlone(s, index) ==
  [s EXCEPT !.visibleIcons = {index}, !.enteringIcons = @ \cup {index}]

showIcon(s, index) ==
  IF index \notin s.visibleIcons
  THEN [s EXCEPT !.visibleIcons = @ \cup {index},
                 !.enteringIcons = @ \cup {index}]
  ELSE s

clearActiveIcons(s) == [s EXCEPT !.activeIcons = {}]

setActiveIcon(s, index) ==
  [clearActiveIcons(s) EXCEPT !.activeIcons = @ \cup {index}]

\* an update that shows no icon of an earlier location
showIconsBelowNone(s, index) == s

RECURSIVE showIconsBelow(_, _)
\* for (let i = 0; i < index; i++) showIcon(i)
showIconsBelow(s, index) ==
  IF index <= 0 THEN s ELSE showIcon(showIconsBelow(s, index - 1), index - 1)

setActiveLocation(s, n, index) ==
  IF OutOfRange(index, n)
  THEN s
  ELSE LET s1 == [s EXCEPT !.overlayLocation = index,
                           !.infoOverlayActive = TRUE]
           s2 == setActiveIcon(showIcon(s1, index), index)
           s3 == showIconsBelow(s2, index)
       IN  [s3 EXCEPT !.currentLocationIndex = index]

scrollHideInfoOverlay(s) ==
  clearActiveIcons([s EXCEPT !.infoOverlayActive = FALSE])

handleIntroSection(s, locs, progress) ==
  IF Len(locs) = 0
  THEN s
  ELSE LET targetTransform == calculateTransform(locs[1].position, ZOOM_SCALE)
           transform ==
             [scale |-> lerp(One, targetTransform.scale, progress),
              translateX |-> lerp(Zero, targetTransform.translateX, progress),
              translateY |-> lerp(Zero, targetTransform.translateY, progress)]
           s1 == applyMapTransform(s, transform)
       IN  IF RGt(progress, Rat(6, 10))
           THEN showIcon(setActiveLocation(s1, Len(locs), 0), 0)
           ELSE scrollHideInfoOverlay(s1)

handleLocationSection(s, locs, locationIndex, progress) ==
  IF locationIndex >= Len(locs)
  THEN s
  ELSE LET currentTransform ==
             calculateTransform(locs[locationIndex + 1].position, ZOOM_SCALE)
           s1 == applyMapTransform(s, currentTransform)
           s2 == setActiveLocation(s1, Len(locs), locationIndex)
           s3 == IF RGt(progress, Rat(1, 10)) THEN showIcon(s2, locationIndex) ELSE s2
           s4 == showIconsBelow(s3, locationIndex)
       IN  IF RGt(progress, Rat(7, 10)) /\ locationIndex < Len(locs) - 1
           THEN LET nextTransform ==
                      calculateTransform(locs[locationIndex + 2].position, ZOOM_SCALE)
                    panProgress == RDiv(RSub(progress, Rat(7, 10)), Rat(3, 10))
                    easedPanProgress == easeInOutCubic(panProgress)
                    transform ==
                      [scale |-> ZOOM_SCALE,
                       translateX |-> lerp(currentTransform.translateX,
                                           nextTransform.translateX, easedPanProgress),
                       translateY |-> lerp(currentTransform.translateY,
                                           nextTransform.translateY, easedPanProgress)]
                    s5 == applyMapTransform(s4, transform)
                IN  IF RGt(panProgress, Rat(3, 10))
                    THEN scrollHideInfoOverlay(s5)
                    ELSE s5
           ELSE s4

RECURSIVE showIconsUpTo(_, _)
\* locations.forEach((_, index) => showIcon(index)), for the first count locations
showIconsUpTo(s, count) ==
  IF count <= 0 THEN s ELSE showIcon(showIconsUpTo(s, count - 1), count - 1)

handleOutroSection(s, locs, progress) ==
  IF Len(locs) = 0
  THEN s
  ELSE LET lastTransform == calculateTransform(locs[Len(locs)].position, ZOOM_SCALE)
           transform ==
             [scale |-> lerp(ZOOM_SCALE, One, progress),
              translateX |-> lerp(lastTransform.translateX, Zero, progress),
              translateY |-> lerp(lastTransform.translateY, Zero, progress)]
           s1 == scrollHideInfoOverlay(applyMapTransform(s, transform))
       IN  showIconsUpTo(s1, Len(locs))

\* const scrollPercent = scrollY / maxScroll
ScrollPercent(y) == Rat(y, maxScroll)
\* const sectionProgress = scrollPercent * (SECTIONS - 1)
SectionProgress(y) == RMul(ScrollPercent(y), Int2Rat(SECTIONS - 1))
\* const currentSection = Math.floor(sectionProgress)
CurrentSection(y) == RFloor(SectionProgress(y))
\* easeInOutCubic(sectionProgress - currentSection)
EasedProgress(y) ==
  easeInOutCubic(RSub(SectionProgress(y), Int2Rat(CurrentSection(y))))

updateOnScroll(s, locs, y) ==
  LET scrollPercent == ScrollPercent(y)
      s1 == [s EXCEPT !.scrollProgress = scrollPercent,
                      !.scrollHintHidden = RGt(scrollPercent, Rat(2, 100))]
      currentSection == CurrentSection(y)
      easedProgress == EasedProgress(y)
  IN  IF currentSection = 0
      THEN handleIntroSection(s1, locs, easedProgress)
      ELSE IF currentSection >= 1 /\ currentSection <= Len(locs)
      THEN handleLocationSection(s1, locs, currentSection - 1, easedProgress)
      ELSE IF currentSection >= Len(locs) + 1
      THEN handleOutroSection(s1, locs, easedProgress)
      ELSE s1

(***************************************************************************)
(* Scroll page: what the browser draws for the transform applyMapTransform  *)
(* writes, "scale(s) translate(tx%, ty%)".  The functions of a transform    *)
(* list apply to a point from right to left: the point is first moved by    *)
(* the translation and then scaled about the transform origin, which is the *)
(* centre of the element (50%) unless a stylesheet moves it.  percent is a  *)
(* coordinate of the point on one axis, in percent of the map's size.       *)
(***************************************************************************)
RenderedAt(scale, translate, percent, origin) ==
  RAdd(Int2Rat(origin),
       RMul(scale, RSub(RAdd(Int2Rat(percent), translate), Int2Rat(origin))))

(***************************************************************************)
(* Scroll page: the video modal, as functions of the player state v.       *)
(***************************************************************************)
ModalState ==
  [videoSrc |-> videoSrc,
   pendingPlays |-> pendingPlays,
   videoPlaying |-> videoPlaying,
   videoModalActive |-> videoModalActive,
   uncaught |-> uncaught]

\* videoPlayer.load() and videoPlayer.pause() reject the play() promises that are
\* still pending; showVideoModal attaches no handler to them
abortPendingPlays(before, after) ==
  IF before.pendingPlays > 0 THEN [after EXCEPT !.uncaught = TRUE] ELSE after

showVideoModal(v, index) ==
  abortPendingPlays(v, [v EXCEPT !.videoSrc = index,
                                 !.videoPlaying = FALSE,
                                 !.videoModalActive = TRUE,
                                 !.pendingPlays = 1])

hideVideoModal(v) ==
  abortPendingPlays(v, [v EXCEPT !.videoModalActive = FALSE,
                                 !.videoPlaying = FALSE,
                                 !.pendingPlays = 0])

(***************************************************************************)
(* Click pages ("image" and "tile"): the handlers, as functions of the     *)
(* page state c.  page is the variant; n is locations.length.              *)
(***************************************************************************)
ClickState ==
  [currentLocationIndex |-> currentLocationIndex,
   infoOverlayActive |-> infoOverlayActive,
   overlayLocation |-> overlayLocation,
   activeMarkers |-> activeMarkers,
   timers |-> timers,
   videoSrc |-> videoSrc,
   controls |-> controls,
   pendingPlays |-> pendingPlays,
   videoPlaying |-> videoPlaying,
   videoHandlers |-> videoHandlers,
   counter |-> counter,
   mapFocus |-> mapFocus,
   uncaught |-> uncaught]

clearActiveMarkers(c) == [c EXCEPT !.activeMarkers = {}]

\* a setActiveMarker that does not clear the other markers first
setActiveMarkerKeeping(c, nMarkers, index) ==
  IF index >= 0 /\ index < nMarkers
  THEN [c EXCEPT !.activeMarkers = @ \cup {index}]
  ELSE c

\* if (markers[index]) ... : nMarkers is markers.length
setActiveMarker(c, nMarkers, index) ==
  LET c1 == clearActiveMarkers(c)
  IN  IF index >= 0 /\ index < nMarkers
      THEN [c1 EXCEPT !.activeMarkers = @ \cup {index}]
      ELSE c1

\* Math.max(0, currentLocationIndex + 1)
updateCounter(c) ==
  [c EXCEPT !.counter = IF c.currentLocationIndex + 1 > 0
                        THEN c.currentLocationIndex + 1 ELSE 0]

\* videoPlayer.load() and videoPlayer.pause() reject the play() promises that are
\* still pending; their catch handler (setAttribute("controls")) runs as soon as
\* the running handler returns
rejectPendingPlays(before, after) ==
  IF before.pendingPlays > 0 THEN [after EXCEPT !.controls = TRUE] ELSE after

showLocationDetails(c, page, n, nMarkers, index) ==
  IF OutOfRange(index, n)
  THEN c
  ELSE LET c1 == [c EXCEPT !.currentLocationIndex = index]
           \* tile page: map.flyTo(targetLatLng, focusZoom)
           c2 == IF page = "tile" THEN [c1 EXCEPT !.mapFocus = index] ELSE c1
           c3 == setActiveMarker(c2, nMarkers, index)
           \* tile page: locationTitle / locationDescription
           c4 == IF page = "tile" THEN [c3 EXCEPT !.overlayLocation = index] ELSE c3
           \* source.src, removeAttribute("controls"), load(), play(), onclick, onended
           c5 == [c4 EXCEPT !.videoSrc = index,
                            !.controls = FALSE,
                            !.videoPlaying = FALSE,
                            !.pendingPlays = 1,
                            !.videoHandlers = TRUE]
           \* setTimeout(() => infoOverlay.classList.add("active"), ...)
           c6 == [c5 EXCEPT !.timers = Append(@, index)]
           c7 == IF page = "tile" THEN updateCounter(c6) ELSE c6
       IN  rejectPendingPlays(c, c7)

\* mapReady: the Leaflet map exists (tile page, initMap has run)
hideInfoOverlay(c, page, mapReady) ==
  LET c1 == [c EXCEPT !.infoOverlayActive = FALSE,
                      !.videoPlaying = FALSE,
                      !.pendingPlays = 0]
      c2 == clearActiveMarkers([c1 EXCEPT !.currentLocationIndex = -1])
      c3 == IF page = "tile"
            THEN IF mapReady
                 THEN updateCounter([c2 EXCEPT !.mapFocus = -1])
                 \* map is null: map.flyTo throws before updateCounter
                 ELSE [c2 EXCEPT !.uncaught = TRUE]
            ELSE c2
  IN  rejectPendingPlays(c, c3)

(***************************************************************************)
(* Image page: geometry.  The handlers are step lists over the map state m *)
(* and the environment e (window, container, loaded data) they read.       *)
(***************************************************************************)
MapState ==
  [backgroundBounds |-> backgroundBounds,
   backgroundImage |-> backgroundImage,
   vh |-> vh,
   markerPositions |-> markerPositions,
   boundsFrom |-> boundsFrom,
   conversion |-> conversion]

\* a / b as the double division computes it: a quotient, Infinity or NaN
Divide(a, b) ==
  IF b # 0 THEN [kind |-> "finite", value |-> Rat(a, b)]
  ELSE IF a > 0 THEN [kind |-> "Infinity", value |-> Zero]
  ELSE [kind |-> "NaN", value |-> Zero]

\* a > b for doubles, b finite: NaN compares false, Infinity is above every number
Greater(a, b) ==
  CASE a.kind = "NaN" -> FALSE
    [] a.kind = "Infinity" -> TRUE
    [] OTHER -> RGt(a.value, b)

\* the fit with its two branches exchanged: fit to width where the container is wider
calculateBackgroundBoundsCover(containerWidth, containerHeight, imageWidth, imageHeight) ==
  LET imageAspect == Rat(imageWidth, imageHeight)
  IN  IF Greater(Divide(containerWidth, containerHeight), imageAspect)
      THEN LET bgWidth == Int2Rat(containerWidth)
               bgHeight == RDiv(bgWidth, imageAspect)
           IN  [left |-> Zero,
                top |-> RDiv(RSub(Int2Rat(containerHeight), bgHeight), Int2Rat(2)),
                width |-> bgWidth,
                height |-> bgHeight]
      ELSE LET bgHeight == Int2Rat(containerHeight)
               bgWidth == RMul(bgHeight, imageAspect)
           IN  [left |-> RDiv(RSub(Int2Rat(containerWidth), bgWidth), Int2Rat(2)),
                top |-> Zero,
                width |-> bgWidth,
                height |-> bgHeight]

\* a contain fit that is not centred: the rectangle sits in the top left corner
calculateBackgroundBoundsCorner(containerWidth, containerHeight, imageWidth, imageHeight) ==
  LET imageAspect == Rat(imageWidth, imageHeight)
  IN  IF Greater(Divide(containerWidth, containerHeight), imageAspect)
      THEN [left |-> Zero, top |-> Zero,
            width |-> RMul(Int2Rat(containerHeight), imageAspect),
            height |-> Int2Rat(containerHeight)]
      ELSE [left |-> Zero, top |-> Zero,
            width |-> Int2Rat(containerWidth),
            height |-> RDiv(Int2Rat(containerWidth), imageAspect)]

calculateBackgroundBounds(containerWidth, containerHeight, imageWidth, imageHeight) ==
  LET containerAspect == Divide(containerWidth, containerHeight)
      imageAspect == Rat(imageWidth, imageHeight)
  IN  IF Greater(containerAspect, imageAspect)
      THEN LET bgHeight == Int2Rat(containerHeight)
               bgWidth == RMul(bgHeight, imageAspect)
           IN  [left |-> RDiv(RSub(Int2Rat(containerWidth), bgWidth), Int2Rat(2)),
                top |-> Zero,
                width |-> bgWidth,
                height |-> bgHeight]
      ELSE LET bgWidth == Int2Rat(containerWidth)
               bgHeight == RDiv(bgWidth, imageAspect)
           IN  [left |-> Zero,
                top |-> RDiv(RSub(Int2Rat(containerHeight), bgHeight), Int2Rat(2)),
                width |-> bgWidth,
                height |-> bgHeight]

getBackgroundImageByOrientation(width, height) ==
  IF width > height THEN "horizontal" ELSE "vertical"

\* a position choice that takes a square window for landscape
getPositionLandscapeOnSquare(location, width, height) ==
  IF width >= height THEN location.positionHorizontal ELSE location.positionVertical

getPositionForOrientation(location, width, height) ==
  IF width > height THEN location.positionHorizontal ELSE location.positionVertical

getActualPosition(bounds, percentX, percentY) ==
  [x |-> RAdd(bounds.left, RMul(Rat(percentX, 100), bounds.width)),
   y |-> RAdd(bounds.top, RMul(Rat(percentY, 100), bounds.height))]

updateMarkerPositions(m, e) ==
  IF e.markers = 0
  THEN m
  ELSE [m EXCEPT
         !.markerPositions =
           [i \in 1..e.markers |->
              LET position == getPositionForOrientation(e.locations[i],
                                                        e.innerWidth, e.innerHeight)
              IN  getActualPosition(m.backgroundBounds, position.x, position.y)],
         !.conversion = [used |-> TRUE,
                         by |-> e.caller,
                         boundsFrom |-> m.boundsFrom,
                         container |-> <<e.offsetWidth, e.offsetHeight>>]]

MapStep(m, e, step) ==
  CASE step = "setViewportHeight" ->
         [m EXCEPT !.vh = Rat(e.innerHeight, 100)]
    [] step = "updateBackgroundImage" ->
         [m EXCEPT !.backgroundImage =
                     getBackgroundImageByOrientation(e.innerWidth, e.innerHeight)]
    [] step = "calculateBackgroundBounds" ->
         [m EXCEPT !.backgroundBounds =
                     calculateBackgroundBounds(e.offsetWidth, e.offsetHeight,
                                               e.mapConfig.imageWidth,
                                               e.mapConfig.imageHeight),
                   !.boundsFrom = <<e.offsetWidth, e.offsetHeight>>]
    [] step = "updateMarkerPositions" -> updateMarkerPositions(m, e)

RECURSIVE RunSteps(_, _, _)
RunSteps(m, e, steps) ==
  IF steps = <<>> THEN m
  ELSE RunSteps(MapStep(m, e, Head(steps)), e, Tail(steps))

\* the calls of initMap before it registers its listeners
initMap == <<"updateBackgroundImage", "setViewportHeight", "calculateBackgroundBounds">>
\* a resize listener that places the markers before it refits the image
resizeHandlerStale ==
  <<"setViewportHeight", "updateBackgroundImage", "updateMarkerPositions",
    "calculateBackgroundBounds">>

\* the resize listener
resizeHandler ==
  <<"setViewportHeight", "updateBackgroundImage", "calculateBackgroundBounds",
    "updateMarkerPositions">>
\* the callback of the orientationchange listener's timer
orientationHandler ==
  <<"setViewportHeight", "updateBackgroundImage", "calculateBackgroundBounds",
    "updateMarkerPositions">>
\* createMarkers, after the markers are pushed
createMarkers == <<"updateMarkerPositions">>

(***************************************************************************)
(* Initial state: the page has been parsed, loadLocations() is in flight.  *)
(***************************************************************************)
Pages == {"scroll", "image", "tile"}
ClickPages == {"image", "tile"}
Dims == 1..MaxDim
ImageDims == 1..MaxImage
\* indices a caller may hand to showLocationDetails
RequestIndices == -2..(MaxLocations + 1)
ScrollPositions == (0 - Overscroll)..(maxScroll + Overscroll)

EmptyConfig == [imageWidth |-> 0, imageHeight |-> 0]
NoBounds == [left |-> Zero, top |-> Zero, width |-> Zero, height |-> Zero]
NoConversion ==
  [used |-> FALSE, by |-> "none", boundsFrom |-> <<-1, -1>>, container |-> <<-1, -1>>]
Request(kind, index) == [kind |-> kind, index |-> index]
NoRequest == Request("none", -1)

commonVars ==
  <<variant, loadState, locations, currentLocationIndex, infoOverlayActive,
    overlayLocation, lastRequest>>
scrollVars ==
  <<scrollY, ticking, rafCallbacks, visibleIcons, enteringIcons, activeIcons,
    mapTransform, scrollProgress, scrollHintHidden, scenario>>
clickVars ==
  <<markers, activeMarkers, timers, videoSrc, controls, pendingPlays, videoPlaying,
    videoHandlers, counter, mapFocus, uncaught, videoModalActive>>
windowVars == <<innerWidth, innerHeight, offsetWidth, offsetHeight>>
mapVars ==
  <<mapConfig, backgroundBounds, backgroundImage, vh, markerPositions, resizePending,
    orientationTimers, boundsFrom, conversion>>
vars == <<commonVars, scrollVars, clickVars, windowVars, mapVars>>

InitPage ==
  /\ loadState = "loading"
  /\ locations = <<>>
  /\ currentLocationIndex = -1
  /\ infoOverlayActive = FALSE
  /\ overlayLocation = -1
  /\ lastRequest = NoRequest
  /\ scrollY = 0
  /\ ticking = FALSE
  /\ rafCallbacks = 0
  /\ visibleIcons = {}
  /\ enteringIcons = {}
  /\ activeIcons = {}
  /\ mapTransform = Identity
  /\ scrollProgress = Zero
  /\ scrollHintHidden = FALSE
  /\ scenario = -1
  /\ markers = 0
  /\ activeMarkers = {}
  /\ timers = <<>>
  /\ videoSrc = -1
  /\ controls = FALSE
  /\ pendingPlays = 0
  /\ videoPlaying = FALSE
  /\ videoHandlers = FALSE
  /\ counter = 0
  /\ mapFocus = -1
  /\ uncaught = FALSE
  /\ videoModalActive = FALSE
  /\ mapConfig = EmptyConfig
  /\ backgroundBounds = NoBounds
  /\ backgroundImage = "none"
  /\ vh = Zero
  /\ markerPositions = <<>>
  /\ resizePending = FALSE
  /\ orientationTimers = 0
  /\ boundsFrom = <<-1, -1>>
  /\ conversion = NoConversion

\* the window has some size; the map container fills it, or is collapsed to zero
\* in a dimension (not laid out yet, hidden)
InitWindow ==
  /\ innerWidth \in Dims
  /\ innerHeight \in Dims
  /\ offsetWidth \in {0, innerWidth}
  /\ offsetHeight \in {0, innerHeight}

Init ==
  /\ variant \in Pages
  /\ InitPage
  /\ InitWindow

CommitScroll(s) ==
  /\ currentLocationIndex' = s.currentLocationIndex
  /\ infoOverlayActive' = s.infoOverlayActive
  /\ overlayLocation' = s.overlayLocation
  /\ visibleIcons' = s.visibleIcons
  /\ enteringIcons' = s.enteringIcons
  /\ activeIcons' = s.activeIcons
  /\ mapTransform' = s.mapTransform
  /\ scrollProgress' = s.scrollProgress
  /\ scrollHintHidden' = s.scrollHintHidden

CommitClick(c) ==
  /\ currentLocationIndex' = c.currentLocationIndex
  /\ infoOverlayActive' = c.infoOverlayActive
  /\ overlayLocation' = c.overlayLocation
  /\ activeMarkers' = c.activeMarkers
  /\ timers' = c.timers
  /\ videoSrc' = c.videoSrc
  /\ controls' = c.controls
  /\ pendingPlays' = c.pendingPlays
  /\ videoPlaying' = c.videoPlaying
  /\ videoHandlers' = c.videoHandlers
  /\ counter' = c.counter
  /\ mapFocus' = c.mapFocus
  /\ uncaught' = c.uncaught

CommitModal(v) ==
  /\ videoSrc' = v.videoSrc
  /\ pendingPlays' = v.pendingPlays
  /\ videoPlaying' = v.videoPlaying
  /\ videoModalActive' = v.videoModalActive
  /\ uncaught' = v.uncaught

CommitMap(m) ==
  /\ backgroundBounds' = m.backgroundBounds
  /\ backgroundImage' = m.backgroundImage
  /\ vh' = m.vh
  /\ markerPositions' = m.markerPositions
  /\ boundsFrom' = m.boundsFrom
  /\ conversion' = m.conversion

MapEnv(locs, nMarkers, config, caller) ==
  [innerWidth |-> innerWidth, innerHeight |-> innerHeight,
   offsetWidth |-> offsetWidth, offsetHeight |-> offsetHeight,
   mapConfig |-> config, locations |-> locs, markers |-> nMarkers, caller |-> caller]

(***************************************************************************)
(* The reference walk of the navigator: three locations, starting in the   *)
(* intro at index -1, then next, next, previous, next, next, next, where a *)
(* request is a scroll update that renders the neighbouring section.       *)
(***************************************************************************)
\* section rendered after k requests of the walk, k = 0..6
ScenarioSections == <<0, 1, 2, 1, 2, 3, 4>>
\* section rendered by the last updateOnScroll
RenderedSection == RFloor(RMul(scrollProgress, Int2Rat(SECTIONS - 1)))

StartScenario(n, y) ==
  IF n = 3 /\ CurrentSection(y) = 0 /\ ~RGt(EasedProgress(y), Rat(6, 10)) THEN 0 ELSE -1

AdvanceScenario(done, index, newSection) ==
  IF done < 0 THEN -1
  ELSE IF newSection = ScenarioSections[done + 1] THEN done
  ELSE IF done = 0 /\ index # -1 THEN -1
  ELSE IF done < 6 /\ newSection = ScenarioSections[done + 2] THEN done + 1
  ELSE -1

(***************************************************************************)
(* loadLocations() and the init() continuation that follows it.            *)
(***************************************************************************)
\* fetch and parse succeed: the file holds n locations and an image of iw x ih
LoadSuccess(n, iw, ih) ==
  /\ loadState = "loading"
  /\ loadState' = "loaded"
  /\ locations' = LocationsFile(n)
  /\ lastRequest' = NoRequest
  /\ UNCHANGED <<variant, windowVars, resizePending, orientationTimers>>
  /\ CASE variant = "scroll" ->
            \* createIcons(); then initEventListeners(); updateOnScroll()
            /\ CommitScroll(updateOnScroll(ScrollState, LocationsFile(n), scrollY))
            /\ scenario' = StartScenario(n, scrollY)
            /\ UNCHANGED <<scrollY, ticking, rafCallbacks, clickVars, mapConfig,
                           backgroundBounds, backgroundImage, vh, markerPositions,
                           boundsFrom, conversion>>
       [] variant = "image" ->
            \* initMap(); createMarkers(); then initEventListeners()
            /\ mapConfig' = [imageWidth |-> iw, imageHeight |-> ih]
            /\ markers' = n
            /\ CommitMap(RunSteps(MapState,
                                  MapEnv(LocationsFile(n), n,
                                         [imageWidth |-> iw, imageHeight |-> ih],
                                         "createMarkers"),
                                  initMap \o createMarkers))
            /\ UNCHANGED <<currentLocationIndex, infoOverlayActive, overlayLocation,
                           scrollVars, activeMarkers, timers, videoSrc, controls,
                           pendingPlays, videoPlaying, videoHandlers, counter, mapFocus,
                           uncaught, videoModalActive>>
       [] variant = "tile" ->
            \* initMap(); createMarkers(); updateCounter(); then initEventListeners()
            /\ markers' = n
            /\ CommitClick(updateCounter(ClickState))
            /\ UNCHANGED <<scrollVars, mapVars, videoModalActive>>

\* scroll page: fetch and parse succeed, the file holds one location at (x%, y%)
LoadPositioned(x, y) ==
  LET file == <<[LocationAt(0) EXCEPT !.position = [x |-> x, y |-> y]]>>
  IN  /\ variant = "scroll"
      /\ loadState = "loading"
      /\ loadState' = "loaded"
      /\ locations' = file
      /\ lastRequest' = NoRequest
      /\ CommitScroll(updateOnScroll(ScrollState, file, scrollY))
      /\ scenario' = StartScenario(1, scrollY)
      /\ UNCHANGED <<variant, scrollY, ticking, rafCallbacks, clickVars, windowVars,
                     mapVars>>

\* fetch rejects or the body does not parse: caught and logged by loadLocations
LoadFailure ==
  /\ loadState = "loading"
  /\ loadState' = "failed"
  /\ lastRequest' = NoRequest
  /\ UNCHANGED <<variant, locations, windowVars, mapVars, markers>>
  /\ CASE variant = "scroll" ->
            \* initEventListeners(); updateOnScroll()
            /\ CommitScroll(updateOnScroll(ScrollState, locations, scrollY))
            /\ UNCHANGED <<scrollY, ticking, rafCallbacks, scenario, activeMarkers, timers,
                           videoSrc, controls, pendingPlays, videoPlaying, videoHandlers,
                           counter, mapFocus, uncaught, videoModalActive>>
       [] variant = "image" ->
            /\ UNCHANGED <<currentLocationIndex, infoOverlayActive, overlayLocation,
                           scrollVars, activeMarkers, timers, videoSrc, controls,
                           pendingPlays, videoPlaying, videoHandlers, counter, mapFocus,
                           uncaught, videoModalActive>>
       [] variant = "tile" ->
            \* initEventListeners(): map is null, map.on throws inside the then callback
            /\ uncaught' = TRUE
            /\ UNCHANGED <<currentLocationIndex, infoOverlayActive, overlayLocation,
                           scrollVars, activeMarkers, timers, videoSrc, controls,
                           pendingPlays, videoPlaying, videoHandlers, counter, mapFocus,
                           videoModalActive>>

(***************************************************************************)
(* Scroll page: events.                                                    *)
(***************************************************************************)
\* a scroll listener that requests a frame for every event
ScrollEventUnthrottled(y) ==
  /\ variant = "scroll"
  /\ y # scrollY
  /\ scrollY' = y
  /\ lastRequest' = NoRequest
  /\ IF loadState # "loading"
     THEN /\ rafCallbacks' = rafCallbacks + 1
          /\ ticking' = TRUE
     ELSE UNCHANGED <<rafCallbacks, ticking>>
  /\ UNCHANGED <<variant, loadState, locations, currentLocationIndex, infoOverlayActive,
                 overlayLocation, visibleIcons, enteringIcons, activeIcons, mapTransform,
                 scrollProgress, scrollHintHidden, scenario, clickVars, windowVars,
                 mapVars>>

\* the user scrolls to y; the scroll listener exists once init() has continued
ScrollEvent(y) ==
  /\ variant = "scroll"
  /\ y # scrollY
  /\ scrollY' = y
  /\ lastRequest' = NoRequest
  /\ IF loadState # "loading" /\ ~ticking
     THEN /\ rafCallbacks' = rafCallbacks + 1
          /\ ticking' = TRUE
     ELSE UNCHANGED <<rafCallbacks, ticking>>
  /\ UNCHANGED <<variant, loadState, locations, currentLocationIndex, infoOverlayActive,
                 overlayLocation, visibleIcons, enteringIcons, activeIcons, mapTransform,
                 scrollProgress, scrollHintHidden, scenario, clickVars, windowVars,
                 mapVars>>

\* a frame callback that forgets to reset ticking
AnimationFrameKeepsTicking ==
  /\ variant = "scroll"
  /\ rafCallbacks > 0
  /\ rafCallbacks' = rafCallbacks - 1
  /\ ticking' = ticking
  /\ CommitScroll(updateOnScroll(ScrollState, locations, scrollY))
  /\ scenario' = AdvanceScenario(scenario, currentLocationIndex, CurrentSection(scrollY))
  /\ lastRequest' = NoRequest
  /\ UNCHANGED <<variant, loadState, locations, scrollY, clickVars, windowVars, mapVars>>

\* the requested animation frame: updateOnScroll(); ticking = false
AnimationFrame ==
  /\ variant = "scroll"
  /\ rafCallbacks > 0
  /\ rafCallbacks' = rafCallbacks - 1
  /\ ticking' = FALSE
  /\ CommitScroll(updateOnScroll(ScrollState, locations, scrollY))
  /\ scenario' = AdvanceScenario(scenario, currentLocationIndex, CurrentSection(scrollY))
  /\ lastRequest' = NoRequest
  /\ UNCHANGED <<variant, loadState, locations, scrollY, clickVars, windowVars, mapVars>>

\* the 800ms timer of showIcon: icon.classList.remove("entering")
EnteringTimeout(i) ==
  /\ variant = "scroll"
  /\ i \in enteringIcons
  /\ enteringIcons' = enteringIcons \ {i}
  /\ lastRequest' = NoRequest
  /\ UNCHANGED <<variant, loadState, locations, currentLocationIndex, infoOverlayActive,
                 overlayLocation, scrollY, ticking, rafCallbacks, visibleIcons,
                 activeIcons, mapTransform, scrollProgress, scrollHintHidden, scenario,
                 clickVars, windowVars, mapVars>>

\* setActiveLocation(index) reached with an index just outside the locations: its
\* two call sites pass 0 and a section index already compared with
\* locations.length, so only other indices are requests of their own
SetActiveLocationRequest(index) ==
  /\ variant = "scroll"
  /\ loadState # "loading"
  /\ index \in {-1, N}
  /\ CommitScroll(setActiveLocation(ScrollState, N, index))
  /\ lastRequest' = Request("setActiveLocation", index)
  /\ UNCHANGED <<variant, loadState, locations, scrollY, ticking, rafCallbacks, scenario,
                 clickVars, windowVars, mapVars>>

(***************************************************************************)
(* Scroll page: the video modal's events.                                  *)
(***************************************************************************)
ModalUnchanged ==
  UNCHANGED <<variant, loadState, locations, currentLocationIndex, infoOverlayActive,
              overlayLocation, scrollVars, markers, activeMarkers, timers, controls,
              videoHandlers, counter, mapFocus, windowVars, mapVars>>

\* click on the icon of location i (createIcons): showVideoModal(location.video)
IconClick(i) ==
  /\ variant = "scroll"
  /\ i >= 0 /\ i < N
  /\ CommitModal(showVideoModal(ModalState, i))
  /\ lastRequest' = Request("showVideoModal", i)
  /\ ModalUnchanged

\* click on the play button: playVideoBtn.dataset.video is the overlay's location
PlayVideoButton ==
  /\ variant = "scroll"
  /\ loadState # "loading"
  /\ overlayLocation >= 0
  /\ CommitModal(showVideoModal(ModalState, overlayLocation))
  /\ lastRequest' = Request("showVideoModal", overlayLocation)
  /\ ModalUnchanged

\* click on the close button or on the modal's backdrop
CloseModal ==
  /\ variant = "scroll"
  /\ loadState # "loading"
  /\ CommitModal(hideVideoModal(ModalState))
  /\ lastRequest' = NoRequest
  /\ ModalUnchanged

\* keydown Escape while the modal is shown
ModalEscapeKey ==
  /\ videoModalActive
  /\ CloseModal

\* the browser starts playback: the play() promise resolves
ModalPlayResolves ==
  /\ variant = "scroll"
  /\ pendingPlays > 0
  /\ CommitModal([ModalState EXCEPT !.pendingPlays = 0, !.videoPlaying = TRUE])
  /\ lastRequest' = NoRequest
  /\ ModalUnchanged

\* the browser blocks autoplay: the play() promise rejects and nothing handles it
ModalPlayRejects ==
  /\ variant = "scroll"
  /\ pendingPlays > 0
  /\ CommitModal([ModalState EXCEPT !.pendingPlays = 0, !.uncaught = TRUE])
  /\ lastRequest' = NoRequest
  /\ ModalUnchanged

(***************************************************************************)
(* Click pages: events.                                                    *)
(***************************************************************************)
ClickUnchanged ==
  UNCHANGED <<variant, loadState, locations, scrollVars, markers, videoModalActive,
              windowVars, mapVars>>

\* showLocationDetails(index): a marker's click listener passes the marker's own
\* index; the function itself accepts any index
NavigationRequest(index) ==
  /\ variant \in ClickPages
  /\ loadState = "loaded"
  /\ Len(timers) < MaxTimers
  /\ CommitClick(showLocationDetails(ClickState, variant, N, markers, index))
  /\ lastRequest' = Request("showLocationDetails", index)
  /\ ClickUnchanged

\* the overlay-reveal timer of showLocationDetails fires
TimerFires ==
  /\ variant \in ClickPages
  /\ timers # <<>>
  /\ CommitClick([ClickState EXCEPT !.infoOverlayActive = TRUE, !.timers = Tail(@)])
  /\ lastRequest' = NoRequest
  /\ ClickUnchanged

\* the browser starts playback: the play() promise resolves
PlayResolves ==
  /\ variant \in ClickPages
  /\ pendingPlays > 0
  /\ CommitClick([ClickState EXCEPT !.pendingPlays = 0, !.videoPlaying = TRUE])
  /\ lastRequest' = NoRequest
  /\ ClickUnchanged

\* the browser blocks autoplay: the play() promise rejects, the catch handler runs
PlayRejects ==
  /\ variant \in ClickPages
  /\ pendingPlays > 0
  /\ CommitClick([ClickState EXCEPT !.pendingPlays = 0, !.controls = TRUE])
  /\ lastRequest' = NoRequest
  /\ ClickUnchanged

\* videoPlayer.onclick
VideoClick ==
  /\ variant \in ClickPages
  /\ videoHandlers
  /\ CommitClick([ClickState EXCEPT !.controls = TRUE])
  /\ lastRequest' = NoRequest
  /\ ClickUnchanged

CloseOverlay ==
  /\ CommitClick(hideInfoOverlay(ClickState, variant, loadState = "loaded"))
  /\ lastRequest' = NoRequest
  /\ ClickUnchanged

\* videoPlayer.onended (image page)
VideoEnded ==
  /\ variant = "image"
  /\ videoHandlers
  /\ videoPlaying
  /\ CloseOverlay

\* click on the overlay outside the video (image page)
OverlayClick ==
  /\ variant = "image"
  /\ loadState # "loading"
  /\ CloseOverlay

\* click on the overlay's handle (tile page)
HandleClick ==
  /\ variant = "tile"
  /\ loadState # "loading"
  /\ CloseOverlay

\* keydown Escape
EscapeKey ==
  /\ variant \in ClickPages
  /\ loadState # "loading"
  /\ infoOverlayActive
  /\ CloseOverlay

\* click on the map outside the markers; on the tile page map.on needs the map
MapClick ==
  /\ variant \in ClickPages
  /\ IF variant = "tile" THEN loadState = "loaded" ELSE loadState # "loading"
  /\ infoOverlayActive
  /\ CloseOverlay

(***************************************************************************)
(* Image page: window events.                                              *)
(***************************************************************************)
MapUnchanged ==
  UNCHANGED <<variant, loadState, locations, currentLocationIndex, infoOverlayActive,
              overlayLocation, scrollVars, clickVars, mapConfig>>

\* the window and the container change size; a resize event is queued for the
\* listener that initMap registered
WindowResize(w, h, ow, oh) ==
  /\ variant = "image"
  /\ <<w, h, ow, oh>> # <<innerWidth, innerHeight, offsetWidth, offsetHeight>>
  /\ innerWidth' = w
  /\ innerHeight' = h
  /\ offsetWidth' = ow
  /\ offsetHeight' = oh
  /\ resizePending' = (loadState = "loaded")
  /\ lastRequest' = NoRequest
  /\ UNCHANGED <<backgroundBounds, backgroundImage, vh, markerPositions,
                 orientationTimers, boundsFrom, conversion>>
  /\ MapUnchanged

\* the resize listener runs
ResizeHandler ==
  /\ variant = "image"
  /\ resizePending
  /\ resizePending' = FALSE
  /\ CommitMap(RunSteps(MapState, MapEnv(locations, markers, mapConfig, "resize"),
                        resizeHandler))
  /\ lastRequest' = NoRequest
  /\ UNCHANGED <<windowVars, orientationTimers>>
  /\ MapUnchanged

\* the orientationchange listener runs: setTimeout(..., 200)
OrientationChange ==
  /\ variant = "image"
  /\ loadState = "loaded"
  /\ orientationTimers < MaxRotations
  /\ orientationTimers' = orientationTimers + 1
  /\ lastRequest' = NoRequest
  /\ UNCHANGED <<windowVars, backgroundBounds, backgroundImage, vh, markerPositions,
                 resizePending, boundsFrom, conversion>>
  /\ MapUnchanged

\* the 200ms timer of the orientationchange listener fires
OrientationTimerFires ==
  /\ variant = "image"
  /\ orientationTimers > 0
  /\ orientationTimers' = orientationTimers - 1
  /\ CommitMap(RunSteps(MapState, MapEnv(locations, markers, mapConfig, "orientationchange"),
                        orientationHandler))
  /\ lastRequest' = NoRequest
  /\ UNCHANGED <<windowVars, resizePending>>
  /\ MapUnchanged

(***************************************************************************)
(* Specifications.  The three groups of handlers of a page work on         *)
(* disjoint state: the scroll page has no click navigation, and on the     *)
(* click pages navigation and geometry neither read nor write each other's *)
(* variables.  Each group is checked as a specification of its own.        *)
(***************************************************************************)
\* image size the click specification loads (the navigation never reads it)
ClickImage == [imageWidth |-> 2, imageHeight |-> 1]

NextScroll ==
  \/ \E n \in 0..MaxLocations : LoadSuccess(n, 1, 1)
  \/ LoadFailure
  \/ \E y \in ScrollPositions : ScrollEvent(y)
  \/ AnimationFrame
  \/ \E i \in 0..(MaxLocations - 1) : EnteringTimeout(i)
  \/ \E index \in -1..MaxLocations : SetActiveLocationRequest(index)

NextClick ==
  \/ \E n \in 0..MaxLocations :
       LoadSuccess(n, ClickImage.imageWidth, ClickImage.imageHeight)
  \/ LoadFailure
  \/ \E index \in RequestIndices : NavigationRequest(index)
  \/ TimerFires
  \/ PlayResolves
  \/ PlayRejects
  \/ VideoClick
  \/ VideoEnded
  \/ OverlayClick
  \/ HandleClick
  \/ EscapeKey
  \/ MapClick

NextMap ==
  \/ \E n \in 0..MaxMarkers, iw \in ImageDims, ih \in ImageDims : LoadSuccess(n, iw, ih)
  \/ LoadFailure
  \/ \E w \in Dims, h \in Dims :
       \E ow \in {0, w}, oh \in {0, h} : WindowResize(w, h, ow, oh)
  \/ ResizeHandler
  \/ OrientationChange
  \/ OrientationTimerFires

\* video playback of all three pages
NextVideo ==
  \/ NextClick
  \/ \E i \in 0..(MaxLocations - 1) : IconClick(i)
  \/ CloseModal
  \/ ModalEscapeKey
  \/ ModalPlayResolves
  \/ ModalPlayRejects

\* the scroll page with one location placed anywhere on the map
Positions == {0, 20, 50, 80, 100}
NextTransform ==
  \/ \E x \in Positions, y \in Positions : LoadPositioned(x, y)
  \/ \E y \in ScrollPositions : ScrollEvent(y)
  \/ AnimationFrame
  \/ EnteringTimeout(0)

NextNav == NextScroll \/ NextClick
Next == NextScroll \/ NextVideo \/ NextMap \/ PlayVideoButton \/ NextTransform

\* the scroll and click handlers never read the window size: one window stands for all
FixedWindow == innerWidth = 2 /\ innerHeight = 1 /\ offsetWidth = 2 /\ offsetHeight = 1
InitScroll == variant = "scroll" /\ InitPage /\ FixedWindow
InitClick == variant \in ClickPages /\ InitPage /\ FixedWindow
InitMap == variant = "image" /\ InitPage /\ InitWindow

InitNav == variant \in Pages /\ InitPage /\ FixedWindow

Spec == Init /\ [][Next]_vars
SpecScroll == InitScroll /\ [][NextScroll]_vars
SpecClick == InitClick /\ [][NextClick]_vars
SpecMap == InitMap /\ [][NextMap]_vars
\* navigation of all three pages
SpecNav == InitNav /\ [][NextNav]_vars
SpecTransform == InitScroll /\ [][NextTransform]_vars
\* the browser runs a requested animation-frame callback: the steps of NextScroll
\* that take a callback off the pending ones are those of AnimationFrame, which
\* is enabled exactly when one is pending
FrameDelivered == rafCallbacks > 0 /\ rafCallbacks' = rafCallbacks - 1
\* a requested animation frame is delivered
FairScroll == SpecScroll /\ WF_rafCallbacks(FrameDelivered)
SpecVideo == InitNav /\ [][NextVideo]_vars
\* timers set with setTimeout fire
FairClick == SpecClick /\ WF_vars(TimerFires)

(***************************************************************************)
(* Properties.                                                             *)
(***************************************************************************)
Range(seq) == {seq[k] : k \in 1..Len(seq)}
\* the step runs the animation-frame callback
FrameStep == rafCallbacks' = rafCallbacks - 1
\* the step calls a navigation function with an index outside the locations
OutOfRangeCall ==
  /\ lastRequest'.kind \in {"showLocationDetails", "setActiveLocation"}
  /\ lastRequest'.index < 0 \/ lastRequest'.index >= N
\* the step runs calculateBackgroundBounds: load, resize listener, orientation timer
CalculateStep ==
  \/ loadState = "loading" /\ loadState' = "loaded"
  \/ resizePending /\ ~resizePending'
  \/ orientationTimers' < orientationTimers

\* C1: while an overlay-reveal timer is pending (a transition is in flight), a
\* navigation request is dropped: currentLocationIndex keeps its value.
C1_RequestDroppedInFlight ==
  [][(timers # <<>> /\ lastRequest'.kind = "showLocationDetails")
       => currentLocationIndex' = currentLocationIndex]_vars

\* C2: whenever the bounds were computed for a container of positive width and
\* height, the rectangle lies inside the container and has the image's aspect
\* ratio: left >= 0, top >= 0, left + width <= containerW, top + height <=
\* containerH, width * imageH = height * imageW.
C2_BoundsContained ==
  (boundsFrom[1] > 0 /\ boundsFrom[2] > 0) =>
    LET b == backgroundBounds
    IN  /\ RLe(Zero, b.left)
        /\ RLe(Zero, b.top)
        /\ RLe(RAdd(b.left, b.width), Int2Rat(boundsFrom[1]))
        /\ RLe(RAdd(b.top, b.height), Int2Rat(boundsFrom[2]))
        /\ RMul(b.width, Int2Rat(mapConfig.imageHeight))
             = RMul(b.height, Int2Rat(mapConfig.imageWidth))

\* a fit of a positive container that leaves a margin on the left and right
C2_Witness ==
  /\ boundsFrom[1] > 0
  /\ boundsFrom[2] > 0
  /\ RGt(backgroundBounds.left, Zero)

Percents == {0, 25, 50, 75, 100}

\* C3: in every state in which markers have been placed, the conversion maps
\* percent 0 to the bound origin, percent 100 to origin + size, and is strictly
\* increasing on each axis (one-to-one onto the bounds rectangle).
C3_ConversionBijective ==
  conversion.used =>
    LET b == backgroundBounds
        at(p) == getActualPosition(b, p, p)
    IN  /\ at(0) = [x |-> b.left, y |-> b.top]
        /\ at(100) = [x |-> RAdd(b.left, b.width), y |-> RAdd(b.top, b.height)]
        /\ \A p \in Percents, q \in Percents :
             p < q => RLt(at(p).x, at(q).x) /\ RLt(at(p).y, at(q).y)

\* the furthest location whose icon has been revealed, -1 if none
maxVisitedIndex ==
  IF visibleIcons = {} THEN -1
  ELSE CHOOSE i \in visibleIcons : \A j \in visibleIcons : j <= i

\* C4: over every step the revealed set only grows and the furthest revealed
\* index does not decrease.
C4_VisitedMonotonic ==
  [][/\ visibleIcons \subseteq visibleIcons'
     /\ maxVisitedIndex' >= maxVisitedIndex]_vars

\* the page has gone back to an earlier location after revealing a later icon
C4_Witness ==
  /\ currentLocationIndex >= 0
  /\ maxVisitedIndex > currentLocationIndex
  /\ RenderedSection = currentLocationIndex + 1

\* C5: an update that renders the previous section while the index is -1 leaves
\* it at -1, and an update that moves from the last location's section to the
\* next section sets the index to -1.
C5_OverviewAtBothEnds ==
  [][FrameStep =>
       /\ (currentLocationIndex = -1 /\ CurrentSection(scrollY) = RenderedSection - 1)
            => currentLocationIndex' = -1
       /\ (N > 0 /\ currentLocationIndex = N - 1 /\ RenderedSection = N
             /\ CurrentSection(scrollY) = N + 1)
            => currentLocationIndex' = -1]_vars

\* index after the k-th request of the reference walk, k = 1..6
ScenarioVisits == <<0, 1, 0, 1, 2, -1>>

\* C6: on the reference walk (3 locations; next, next, previous, next, next,
\* next from -1) the index after each request is 0, 1, 0, 1, 2 and finally -1,
\* the icon of a location entered is visible, and at the end all three icons
\* are visible.
C6_ReferenceWalk ==
  scenario >= 1 =>
    /\ currentLocationIndex = ScenarioVisits[scenario]
    /\ scenario < 6 => currentLocationIndex \in visibleIcons
    /\ scenario = 6 => visibleIcons = {0, 1, 2}

\* C7: a transition accepted for location i (its reveal timer is pending) leads
\* to the overlay being shown for location i.
C7_TransitionCompletes ==
  \A i \in 0..(MaxLocations - 1) :
    (i \in Range(timers)) ~> (infoOverlayActive /\ videoSrc = i)

\* what a navigation request may change
navigationVars ==
  <<currentLocationIndex, infoOverlayActive, overlayLocation, activeMarkers,
    activeIcons, visibleIcons, mapTransform, timers, videoSrc, controls, pendingPlays,
    videoPlaying, counter, mapFocus, uncaught>>

\* C8: a request with an index outside the locations, and a scroll update for a
\* position above the first section, change neither the index, the active
\* marker, the overlay nor the video, and raise nothing.
C8_OutOfRangeIgnored ==
  [][(OutOfRangeCall \/ (FrameStep /\ CurrentSection(scrollY) < 0))
       => UNCHANGED navigationVars]_vars

\* an out-of-range request has just been made while a location is shown
C8_Witness ==
  /\ lastRequest.kind = "showLocationDetails"
  /\ lastRequest.index >= N
  /\ currentLocationIndex >= 0
  /\ timers # <<>>

\* C9: a bounds computation that finds the container with zero width or zero
\* height leaves backgroundBounds as it was.
C9_ZeroContainerSkipped ==
  [][(CalculateStep /\ (offsetWidth = 0 \/ offsetHeight = 0))
       => backgroundBounds' = backgroundBounds]_vars

\* C10: the bounds used by the last conversion were computed from the container
\* size that was current at that conversion.
C10_ConversionFresh ==
  conversion.used => conversion.boundsFrom = conversion.container

\* the resize listener has placed the markers for a container that differs from
\* the one the page loaded with bounds for
C10_Witness ==
  /\ conversion.used
  /\ conversion.by = "resize"
  /\ conversion.container = <<offsetWidth, offsetHeight>>
  /\ offsetWidth > 0
  /\ offsetHeight > 0

\* the first five requests of the reference walk: the index after each is 0, 1,
\* 0, 1, 2 and the icon of the location entered is visible
C6_WalkBeforeLastRequest ==
  (scenario >= 1 /\ scenario < 6) =>
    /\ currentLocationIndex = ScenarioVisits[scenario]
    /\ currentLocationIndex \in visibleIcons

\* the step rejects the pending play() promise because autoplay is blocked: the
\* promise is settled, nothing plays, and neither the overlay nor the modal was
\* closed (a close resets the index or the modal's active class)
PlayRejectedStep ==
  /\ pendingPlays > 0
  /\ pendingPlays' = 0
  /\ ~videoPlaying'
  /\ currentLocationIndex' = currentLocationIndex
  /\ videoModalActive' = videoModalActive

\* C11: on every page, a step in which the browser rejects the pending play()
\* promise leaves the player with its controls attribute set and raises no
\* unhandled rejection.
C11_PlayRejectionHandled ==
  [][PlayRejectedStep => (controls' /\ uncaught' = uncaught)]_vars

\* the page as it is before any location is loaded
EmptyPage ==
  /\ locations = <<>>
  /\ markers = 0
  /\ visibleIcons = {}
  /\ activeIcons = {}
  /\ activeMarkers = {}
  /\ ~infoOverlayActive
  /\ currentLocationIndex = -1

\* C12: once loading has failed it is never retried, the page stays empty (no
\* locations, markers or icons, no overlay, index -1) under every later event,
\* and nothing is raised.
C12_LoadFailureContained ==
  [][/\ loadState = "failed" => loadState' = "failed"
     /\ loadState' = "failed" => (EmptyPage' /\ ~uncaught')]_vars

\* the part of C12 that does not speak of raising: no retry, the page stays empty
C12_EmptyAfterFailure ==
  [][/\ loadState = "failed" => loadState' = "failed"
     /\ loadState' = "failed" => EmptyPage']_vars

\* every icon up to the furthest revealed one is visible
VisitedIconsVisible == \A i \in 0..maxVisitedIndex : i \in visibleIcons

\* C13: whenever currentLocationIndex = -1 the map is shown full and unzoomed
\* (scale 1, zero translation; the initial view on the tile page) and every icon
\* up to the furthest revealed one is visible.
C13_OverviewUnzoomed ==
  currentLocationIndex = -1 =>
    /\ mapTransform = Identity
    /\ mapFocus = -1
    /\ VisitedIconsVisible

\* the part of C13 about the icons, in every state
C13_VisitedIconsKept == VisitedIconsVisible

\* a location's overlay is shown, or its reveal timer is still pending
LocationShown == infoOverlayActive \/ timers # <<>>

\* C14: in every state currentLocationIndex is in -1..N-1, and it is -1 exactly
\* when no location's overlay is shown.
C14_IndexTracksOverlay ==
  /\ currentLocationIndex \in -1..(N - 1)
  /\ (currentLocationIndex = -1) <=> ~LocationShown

\* the range part of C14
C14_IndexInRange == currentLocationIndex \in -1..(N - 1)

\* C15: at most one animation-frame callback is pending at any time, and ticking
\* is true exactly while one is pending, so updateOnScroll runs at most once per
\* frame however many scroll events arrive.
C15_OneFramePending ==
  /\ rafCallbacks <= 1
  /\ ticking <=> rafCallbacks = 1

\* a frame is pending and the page has been scrolled on past the section that
\* frame was requested for
C15_Witness ==
  /\ ticking
  /\ rafCallbacks = 1
  /\ CurrentSection(scrollY) > RenderedSection + 1

\* C16: under any interleaving of marker clicks, close actions and timer
\* firings, the overlay is never active while currentLocationIndex = -1.
C16_NoOverlayInOverview ==
  infoOverlayActive => currentLocationIndex # -1

\* C17: a section 1..N rendered by updateOnScroll shows location section - 1,
\* and an update at scroll fraction 1 (the end of the outro) leaves the map in
\* the full view: scale 1, zero translation.
C17_SectionsEndInFullView ==
  /\ (RenderedSection >= 1 /\ RenderedSection <= N)
       => currentLocationIndex = RenderedSection - 1
  /\ scrollProgress = One => mapTransform = Identity

\* the scroll page as it is when the first updateOnScroll runs
FreshScrollState ==
  [currentLocationIndex |-> -1, infoOverlayActive |-> FALSE, overlayLocation |-> -1,
   visibleIcons |-> {}, enteringIcons |-> {}, activeIcons |-> {},
   mapTransform |-> Identity, scrollProgress |-> Zero, scrollHintHidden |-> FALSE]

\* the part of C17 about the locations: for every number n of locations up to
\* MaxLocations + 2, each location is the active one at some scroll position
C17_EveryLocationActive ==
  \A n \in 1..(MaxLocations + 2) :
    \A i \in 0..(n - 1) :
      \E y \in 0..maxScroll :
        updateOnScroll(FreshScrollState, LocationsFile(n), y).currentLocationIndex = i

\* the last update rendered the section of the only location: the map shows
\* calculateTransform(position, ZOOM_SCALE), without a pan to a next location
CentredOnOnlyLocation == N = 1 /\ RenderedSection = 1

\* C18: the transform applied for a location at (x%, y%) has translateX =
\* (50 - x) * scale and translateY = (50 - y) * scale, it draws the location's
\* point at the centre of the viewport (50%, 50%), and position (50, 50) gives
\* zero translation.
C18_TransformCentresLocation ==
  CentredOnOnlyLocation =>
    LET position == locations[1].position
        tr == mapTransform
    IN  /\ tr.scale = ZOOM_SCALE
        /\ tr.translateX = RMul(Int2Rat(50 - position.x), tr.scale)
        /\ tr.translateY = RMul(Int2Rat(50 - position.y), tr.scale)
        /\ RenderedAt(tr.scale, tr.translateX, position.x, 50) = Int2Rat(50)
        /\ RenderedAt(tr.scale, tr.translateY, position.y, 50) = Int2Rat(50)
        /\ (position.x = 50 /\ position.y = 50)
             => (tr.translateX = Zero /\ tr.translateY = Zero)

\* the part of C18 about the values calculateTransform returns
C18_TranslationFormula ==
  CentredOnOnlyLocation =>
    LET position == locations[1].position
        tr == mapTransform
    IN  /\ tr.scale = ZOOM_SCALE
        /\ tr.translateX = RMul(Int2Rat(50 - position.x), tr.scale)
        /\ tr.translateY = RMul(Int2Rat(50 - position.y), tr.scale)
        /\ (position.x = 50 /\ position.y = 50)
             => (tr.translateX = Zero /\ tr.translateY = Zero)

\* wherever a stylesheet puts the transform origin, some location is not drawn
\* at the centre
C18_NoOriginCentres ==
  \A origin \in {0, 50, 100} :
    \E x \in Positions :
      LET tr == calculateTransform([x |-> x, y |-> x], ZOOM_SCALE)
      IN  RenderedAt(tr.scale, tr.translateX, x, origin) # Int2Rat(50)

\* C19: for a container of positive size, if the container is relatively wider
\* than the image the rectangle has height = containerH, top = 0 and left =
\* (containerW - width) / 2; otherwise it has width = containerW, left = 0 and
\* top = (containerH - height) / 2; so it spans the container on one axis.
C19_MaximalContainFit ==
  (boundsFrom[1] > 0 /\ boundsFrom[2] > 0) =>
    LET b == backgroundBounds
        containerW == boundsFrom[1]
        containerH == boundsFrom[2]
        wider == containerW * mapConfig.imageHeight > mapConfig.imageWidth * containerH
        half(a) == RDiv(a, Int2Rat(2))
    IN  /\ wider =>
             /\ b.height = Int2Rat(containerH)
             /\ b.top = Zero
             /\ b.left = half(RSub(Int2Rat(containerW), b.width))
        /\ ~wider =>
             /\ b.width = Int2Rat(containerW)
             /\ b.left = Zero
             /\ b.top = half(RSub(Int2Rat(containerH), b.height))
        /\ b.width = Int2Rat(containerW) \/ b.height = Int2Rat(containerH)

\* a fit to the width of a positive container that leaves a margin above and below
C19_Witness ==
  /\ boundsFrom[1] > 0
  /\ boundsFrom[2] > 0
  /\ backgroundBounds.width = Int2Rat(boundsFrom[1])
  /\ RGt(backgroundBounds.top, Zero)

\* the transform that centres on location i (0-based) of the loaded locations
TransformOf(i) == calculateTransform(locations[i + 1].position, ZOOM_SCALE)

\* C20: the map transform is continuous across section boundaries.  With the
\* loaded locations: the section of location i applies location i's transform at
\* its start and up to the start of its pan (progress 0.7), and location i+1's
\* transform at the end of the pan (progress 1), which is what the section of
\* location i+1 applies at its start; the intro ends (progress 1) at location
\* 0's transform and the outro starts (progress 0) at location N-1's; the ease
\* maps 0 to 0 and 1 to 1 and is non-decreasing (sampled at every twelfth).
C20_TransformContinuous ==
  LET s == ScrollState
      at(i, progress) == handleLocationSection(s, locations, i, progress).mapTransform
  IN  /\ easeInOutCubic(Zero) = Zero
      /\ easeInOutCubic(One) = One
      /\ \A k \in 1..12 :
           RLe(easeInOutCubic(Rat(k - 1, 12)), easeInOutCubic(Rat(k, 12)))
      /\ \A i \in 0..(N - 1) :
           /\ at(i, Zero) = TransformOf(i)
           /\ at(i, Rat(7, 10)) = TransformOf(i)
           /\ i < N - 1 => at(i, One) = TransformOf(i + 1)
      /\ N > 0 =>
           /\ handleIntroSection(s, locations, One).mapTransform = TransformOf(0)
           /\ handleOutroSection(s, locations, Zero).mapTransform = TransformOf(N - 1)

\* the page is in the middle of a pan: the rendered section is that of a location
\* that has a successor, and the map is at neither location's transform
C20_Witness ==
  /\ N >= 2
  /\ RenderedSection >= 1
  /\ RenderedSection < N
  /\ mapTransform # TransformOf(RenderedSection - 1)
  /\ mapTransform # TransformOf(RenderedSection)

\* the position set of a location that belongs to the displayed image
PositionFor(location, image) ==
  IF image = "horizontal" THEN location.positionHorizontal ELSE location.positionVertical

\* C21: once the page is loaded, every marker is placed from the position set
\* that belongs to the displayed background image, and when no resize is waiting
\* for its listener the image is the horizontal one exactly when the window is
\* wider than tall (the vertical one for a square window).
C21_ImageMatchesPositions ==
  loadState = "loaded" =>
    /\ backgroundImage \in {"horizontal", "vertical"}
    /\ Len(markerPositions) = markers
    /\ \A i \in 1..markers :
         LET position == PositionFor(locations[i], backgroundImage)
         IN  markerPositions[i]
               = getActualPosition(backgroundBounds, position.x, position.y)
    /\ ~resizePending => (backgroundImage = "horizontal" <=> innerWidth > innerHeight)

\* the resize listener has placed a marker for a landscape window on bounds of
\* positive size, where the two position sets give different points
C21_Witness ==
  /\ conversion.by = "resize"
  /\ markers > 0
  /\ backgroundImage = "horizontal"
  /\ RGt(backgroundBounds.width, Zero)
  /\ RGt(backgroundBounds.height, Zero)

\* C22: on the click pages at most one marker is active, and the set of active
\* markers is {currentLocationIndex} when the index is >= 0 and empty when it
\* is -1.
C22_OneActiveMarker ==
  /\ Cardinality(activeMarkers) <= 1
  /\ currentLocationIndex >= 0 => activeMarkers = {currentLocationIndex}
  /\ currentLocationIndex = -1 => activeMarkers = {}

\* marker 0 and then marker 1 were clicked (both reveal timers are still
\* pending) and only marker 1 is active
C22_Witness ==
  /\ timers = <<0, 1>>
  /\ currentLocationIndex = 1
  /\ activeMarkers = {1}

\* what is rendered is what updateOnScroll draws for the current scroll position
RenderedCurrent ==
  /\ scrollProgress = ScrollPercent(scrollY)
  /\ mapTransform = updateOnScroll(ScrollState, locations, scrollY).mapTransform

\* C23: no final update is lost.  Once the listeners are installed, whenever no
\* animation frame is pending the rendered progress, section and transform are
\* those of the current scroll position (a dropped event is covered by the frame
\* that was pending), and a pending frame is eventually delivered; so once
\* scrolling stops the last position is eventually what is rendered.
C23_FinalScrollRendered ==
  /\ []((loadState # "loading" /\ rafCallbacks = 0) => RenderedCurrent)
  /\ (rafCallbacks > 0) ~> (rafCallbacks = 0 /\ RenderedCurrent)

\* a scroll event has been dropped: a frame is pending and the position has
\* moved on since it was requested, past what is rendered
C23_Witness ==
  /\ ticking
  /\ rafCallbacks = 1
  /\ ~RenderedCurrent
  /\ scrollY = maxScroll
  /\ N = MaxLocations

\* C24: on the scroll page the revealed icons form a prefix of the location
\* order: if icon i is visible, so is every icon j < i.
C24_VisibleIconsPrefix ==
  \A i \in visibleIcons : \A j \in 0..(i - 1) : j \in visibleIcons

\* a jump straight into the section of location 1: icons 0 and 1 have been
\* revealed by the same update and are both still entering
C24_Witness ==
  /\ N = 3
  /\ currentLocationIndex = 1
  /\ visibleIcons = {0, 1}
  /\ enteringIcons = {0, 1}

====
